---- MODULE Spec2Model ----
(***************************************************************************)
(* NL2SQL question-to-result pipeline (warehouse/nl2sql_engine.py).        *)
(* Strings that the code inspects character by character (SQL candidates)  *)
(* are sequences of one-character strings; every other text is a record    *)
(* that keeps the parts the code formats into it.                          *)
(***************************************************************************)
EXTENDS Integers, Sequences, FiniteSets, TLC

\* ------------------------------------------------------------------------
\* Bounds of the model
\* ------------------------------------------------------------------------
MaxRetries == 2

\* concurrent invocations of SQLExecutor.execute
MaxCalls == 2

\* rows held by the table a query reads
TableRows == 3

\* largest explicit max_rows argument
MaxCap == 2

\* callers that validate at the same time
MaxCallers == 2

\* validations that are followed
MaxValidations == 3

\* ------------------------------------------------------------------------
\* Python str primitives used by the validator, executor and client
\* ------------------------------------------------------------------------
LowerLetters == <<"a","b","c","d","e","f","g","h","i","j","k","l","m",
                  "n","o","p","q","r","s","t","u","v","w","x","y","z">>

UpperLetters == <<"A","B","C","D","E","F","G","H","I","J","K","L","M",
                  "N","O","P","Q","R","S","T","U","V","W","X","Y","Z">>

Digits == {"0","1","2","3","4","5","6","7","8","9"}

Whitespace == {" ", "\t", "\n", "\r"}

Range(s) == {s[i] : i \in 1..Len(s)}

UpperChar(c) ==
    IF \E i \in 1..26 : LowerLetters[i] = c
    THEN UpperLetters[CHOOSE i \in 1..26 : LowerLetters[i] = c]
    ELSE c

\* str.upper()
Upper(s) == [i \in 1..Len(s) |-> UpperChar(s[i])]

\* \w of the re module
IsWordChar(c) == c \in Range(LowerLetters) \cup Range(UpperLetters) \cup Digits \cup {"_"}

\* str.lstrip(chars)
LStripChars(s, chars) ==
    LET keep == {i \in 1..Len(s) : s[i] \notin chars}
    IN  IF keep = {} THEN <<>>
        ELSE SubSeq(s, CHOOSE i \in keep : \A j \in keep : i <= j, Len(s))

\* str.rstrip(chars)
RStripChars(s, chars) ==
    LET keep == {i \in 1..Len(s) : s[i] \notin chars}
    IN  IF keep = {} THEN <<>>
        ELSE SubSeq(s, 1, CHOOSE i \in keep : \A j \in keep : j <= i)

\* str.strip()
Strip(s) == RStripChars(LStripChars(s, Whitespace), Whitespace)

\* str.rstrip(';')
RStripSemi(s) == RStripChars(s, {";"})

\* str.startswith(prefix)
StartsWith(s, prefix) ==
    Len(prefix) <= Len(s) /\ SubSeq(s, 1, Len(prefix)) = prefix

\* positions at which sub occurs in s
Occurrences(s, sub) ==
    {i \in 1..(Len(s) - Len(sub) + 1) : SubSeq(s, i, i + Len(sub) - 1) = sub}

\* sub in s
Contains(s, sub) == Occurrences(s, sub) # {}

WholeWordIn_Anywhere(s, word) == Contains(s, word)

\* re.search(r'\b' + word + r'\b', s): word is made of word characters, so
\* each \b asks for a non-word character (or the end of the text) beside it
WholeWordIn(s, word) ==
    \E i \in Occurrences(s, word) :
        /\ (i = 1 \/ ~IsWordChar(s[i - 1]))
        /\ (i + Len(word) > Len(s) \/ ~IsWordChar(s[i + Len(word)]))

\* s.split(sep) for a one-character separator: the pieces between
\* consecutive separators, the two ends of s counting as separators
Split(s, sep) ==
    LET cuts == {0, Len(s) + 1} \cup {i \in 1..Len(s) : s[i] = sep}
        cut(k) == CHOOSE c \in cuts : Cardinality({d \in cuts : d < c}) = k - 1
    IN  [k \in 1..(Cardinality(cuts) - 1) |-> SubSeq(s, cut(k) + 1, cut(k + 1) - 1)]

\* ------------------------------------------------------------------------
\* 4. SQL VALIDATOR
\* ------------------------------------------------------------------------
BLOCKED_KEYWORDS ==
    << <<"I","N","S","E","R","T">>, <<"U","P","D","A","T","E">>,
       <<"D","E","L","E","T","E">>, <<"D","R","O","P">>,
       <<"A","L","T","E","R">>, <<"C","R","E","A","T","E">>,
       <<"T","R","U","N","C","A","T","E">>, <<"R","E","P","L","A","C","E">>,
       <<"M","E","R","G","E">>, <<"E","X","E","C">>,
       <<"E","X","E","C","U","T","E">>, <<"G","R","A","N","T">>,
       <<"R","E","V","O","K","E">>, <<"C","O","M","M","I","T">>,
       <<"R","O","L","L","B","A","C","K">>,
       <<"S","A","V","E","P","O","I","N","T">>,
       <<"A","T","T","A","C","H">>, <<"D","E","T","A","C","H">>,
       <<"P","R","A","G","M","A">> >>

KwSelect == <<"S","E","L","E","C","T">>

KwWith == <<"W","I","T","H">>

\* Python None
None == [none |-> TRUE]

Statements_Unfiltered(sql) == Split(sql, ";")

\* the statements list of validate: non-blank pieces between ';'
Statements(sql) ==
    SelectSeq([i \in 1..Len(Split(sql, ";")) |-> Strip(Split(sql, ";")[i])],
              LAMBDA p : p # <<>>)

SearchedText_Cased(sql) == Strip(sql)

\* sql_upper = sql.upper().strip()
SearchedText(sql) == Strip(Upper(sql))

AllowedStart_Any(sql_upper) == TRUE

\* sql_upper.startswith('SELECT') or sql_upper.startswith('WITH')
AllowedStart(sql_upper) ==
    StartsWith(sql_upper, KwSelect) \/ StartsWith(sql_upper, KwWith)

\* SQLValidator.validate
Validate(sql) ==
    LET sql_upper == SearchedText(sql)
        hits == {k \in 1..Len(BLOCKED_KEYWORDS) : WholeWordIn(sql_upper, BLOCKED_KEYWORDS[k])}
    IN  IF sql = <<>> \/ Strip(sql) = <<>>
        THEN [valid |-> FALSE, error |-> [msg |-> "Empty SQL query"]]
        ELSE IF ~AllowedStart(sql_upper)
        THEN [valid |-> FALSE, error |-> [msg |-> "Only SELECT queries are allowed"]]
        ELSE IF hits # {}
        THEN [valid |-> FALSE,
              error |-> [msg |-> "Forbidden keyword: ",
                         keyword |-> BLOCKED_KEYWORDS[CHOOSE k \in hits : \A j \in hits : k <= j]]]
        ELSE IF Len(Statements(sql)) > 1
        THEN [valid |-> FALSE, error |-> [msg |-> "Multiple statements not allowed"]]
        ELSE [valid |-> TRUE, error |-> None]

\* ------------------------------------------------------------------------
\* 5. SQL EXECUTOR
\* ------------------------------------------------------------------------
\* what the storage engine does with one query: it raises, or it returns a
\* result set and the call takes ms milliseconds
EngineErrors == {"no such column", "syntax error"}

ResultSets ==
    { [columns |-> <<"month">>, rows |-> << [month |-> 1] >>],
      [columns |-> <<"n">>, rows |-> << [n |-> 1], [n |-> 2] >>] }

EngineOutcomes ==
    {[raise |-> e] : e \in EngineErrors}
    \cup {[columns |-> r.columns, rows |-> r.rows, ms |-> 7] : r \in ResultSets}

\* the dict of the except clause (lines 350-355)
FailureOutcome(e) ==
    [success |-> FALSE, error |-> [msg |-> e],
     columns |-> <<>>, rows |-> <<>>,
     row_count |-> 0, execution_time_ms |-> 0]

\* the dict returned at the end of the try block (lines 342-348)
SuccessOutcome(columns, rows, ms) ==
    [success |-> TRUE, columns |-> columns, rows |-> rows,
     row_count |-> Len(rows), execution_time_ms |-> ms]

\* SQLExecutor.execute: the Outcome built from what the engine did
Execute(sql, engine) ==
    IF "raise" \in DOMAIN engine
    THEN FailureOutcome(engine.raise)
    ELSE SuccessOutcome(engine.columns, engine.rows, engine.ms)

\* getattr(settings, 'NL2SQL_MAX_ROWS', 500)
NL2SQL_MAX_ROWS == 500

DigitChars == <<"0","1","2","3","4","5","6","7","8","9">>

RECURSIVE Dec(_)
\* the decimal text of a natural number, as an f-string formats it
Dec(n) ==
    IF n < 10 THEN <<DigitChars[n + 1]>>
    ELSE Dec(n \div 10) \o <<DigitChars[(n % 10) + 1]>>

KwLimit == <<"L","I","M","I","T">>

\* if 'LIMIT' not in sql.upper(): sql = sql.rstrip(';') + f' LIMIT {max_rows}'
SentForm(sql, max_rows) ==
    IF ~Contains(Upper(sql), KwLimit)
    THEN RStripSemi(sql) \o <<" ">> \o KwLimit \o <<" ">> \o Dec(max_rows)
    ELSE sql

\* if max_rows is None: max_rows = getattr(settings, 'NL2SQL_MAX_ROWS', 500)
EffectiveCap(max_rows) ==
    IF max_rows = None THEN NL2SQL_MAX_ROWS ELSE max_rows.int

RECURSIVE ToNat(_)
\* the number a digit text denotes
ToNat(ds) ==
    IF ds = <<>> THEN 0
    ELSE 10 * ToNat(SubSeq(ds, 1, Len(ds) - 1))
         + (CHOOSE d \in 0..9 : DigitChars[d + 1] = ds[Len(ds)])

\* what the engine reads as the row limit of a statement: the number of a
\* final LIMIT clause, or -1 when the statement does not end with one
LimitOf(stmt) ==
    LET nondigits == {i \in 1..Len(stmt) : stmt[i] \notin Digits}
        last == IF nondigits = {} THEN 0
                ELSE CHOOSE i \in nondigits : \A j \in nondigits : j <= i
        digits == SubSeq(stmt, last + 1, Len(stmt))
    IN  IF /\ digits # <<>>
           /\ last >= 7
           /\ SubSeq(Upper(stmt), last - 6, last) = <<" ">> \o KwLimit \o <<" ">>
        THEN ToNat(digits)
        ELSE -1

\* cursor.fetchall(): every row the statement selects from a table of
\* TableRows rows
FetchAll(stmt) ==
    LET k == IF LimitOf(stmt) < 0 \/ LimitOf(stmt) > TableRows THEN TableRows
             ELSE LimitOf(stmt)
    IN  [i \in 1..k |-> [a |-> i]]

\* arguments of execute: "SELECT a FROM t", "SELECT a FROM t;",
\* "SELECT a FROM t LIMIT 3", "select a from t limit 1", "SELECT a FROM limits"
ExecQueries ==
    { <<"S","E","L","E","C","T"," ","a"," ","F","R","O","M"," ","t">>,
      <<"S","E","L","E","C","T"," ","a"," ","F","R","O","M"," ","t",";">>,
      <<"S","E","L","E","C","T"," ","a"," ","F","R","O","M"," ","t"," ","L","I","M","I","T"," ","3">>,
      <<"s","e","l","e","c","t"," ","a"," ","f","r","o","m"," ","t"," ","l","i","m","i","t"," ","1">>,
      <<"S","E","L","E","C","T"," ","a"," ","F","R","O","M"," ","l","i","m","i","t","s">> }

\* max_rows arguments: None, or an explicit cap
MaxRowsArgs == {None} \cup {[int |-> n] : n \in 1..MaxCap}

ConnectErrors == {"unable to open database file"}

FetchErrors == {"database disk image is malformed"}

\* ------------------------------------------------------------------------
\* 6. CLAUDE API CLIENT
\* ------------------------------------------------------------------------
\* CORRECTION_PROMPT.format(question=..., sql=..., error=...)
CORRECTION_PROMPT(question, sql, error) ==
    [prompt |-> "correction", question |-> question, sql |-> sql, error |-> error]

UserMessage_AlwaysPlain(question, error_context) ==
    [prompt |-> "convert", question |-> question]

\* user_message = error_context if error_context else f"Convert this question to SQL: {question}"
UserMessage(question, error_context) ==
    IF error_context # None THEN error_context
    ELSE [prompt |-> "convert", question |-> question]

ScanStarts_Nowhere(text) == {}

\* re.search(r'(?:SELECT|WITH)\s+.+', text, re.IGNORECASE | re.DOTALL):
\* the leftmost keyword that is followed by whitespace and one more character;
\* the match runs to the end of the text
ScanStarts(text) ==
    {i \in 1..Len(text) :
        \E kw \in {KwSelect, KwWith} :
            /\ i \in Occurrences(Upper(text), kw)
            /\ i + Len(kw) + 1 <= Len(text)
            /\ text[i + Len(kw)] \in Whitespace}

ScanMatch(text) ==
    IF ScanStarts(text) = {} THEN None
    ELSE SubSeq(text, CHOOSE i \in ScanStarts(text) : \A j \in ScanStarts(text) : i <= j,
                Len(text))

\* dict.get(key, default)
Get(d, key, default) == IF key \in DOMAIN d THEN d[key] ELSE default

\* the try block of generate_sql (lines 371-393). oracle is what the one
\* messages.create call did: it raised, or it replied with text that decodes
\* to JSON, or with text that does not decode. The block returns a dict or
\* raises: json.loads raises JSONDecodeError, 'sql' in a decoded number raises
\* TypeError, .strip() on a null sql raises AttributeError
GenerateSqlBody(question, error_context, oracle) ==
    IF "raise" \in DOMAIN oracle
    THEN [exc |-> [type |-> "APIError", msg |-> oracle.raise]]
    ELSE IF "text" \in DOMAIN oracle
    THEN [exc |-> [type |-> "JSONDecodeError", msg |-> "Expecting value"]]
    ELSE IF "number" \in DOMAIN oracle
    THEN [exc |-> [type |-> "TypeError",
                   msg |-> "argument of type 'int' is not iterable"]]
    ELSE IF "nullsql" \in DOMAIN oracle
    THEN [exc |-> [type |-> "AttributeError",
                   msg |-> "'NoneType' object has no attribute 'strip'"]]
    ELSE IF "sql" \notin DOMAIN oracle.json
    THEN [return |-> [error |-> [msg |-> "Claude did not return a valid SQL query"]]]
    ELSE [return |-> [sql |-> Strip(oracle.json.sql),
                      explanation |-> Get(oracle.json, "explanation", "")]]

GenerateSqlHandlers_DecodeOnly(body, oracle) ==
    IF "return" \in DOMAIN body THEN body.return
    ELSE IF body.exc.type = "JSONDecodeError"
    THEN IF ScanStarts(oracle.text) # {}
         THEN [sql |-> RStripSemi(Strip(ScanMatch(oracle.text))), explanation |-> ""]
         ELSE [error |-> [msg |-> "Failed to parse Claude's response"]]
    ELSE [raised |-> body.exc]

\* the except clauses of generate_sql (lines 395-401): JSONDecodeError first,
\* then every other Exception; [raised |-> e] stands for e leaving the call
GenerateSqlHandlers(body, oracle) ==
    IF "return" \in DOMAIN body THEN body.return
    ELSE IF body.exc.type = "JSONDecodeError"
    THEN IF ScanStarts(oracle.text) # {}
         THEN [sql |-> RStripSemi(Strip(ScanMatch(oracle.text))), explanation |-> ""]
         ELSE [error |-> [msg |-> "Failed to parse Claude's response"]]
    ELSE [error |-> [msg |-> "Claude API error: ", cause |-> body.exc.msg]]

OracleRequests_Resend(api_key, question, error_context, oracle) ==
    IF api_key = "" THEN <<>>
    ELSE IF "raise" \in DOMAIN oracle
    THEN <<[message |-> UserMessage(question, error_context), reply |-> oracle],
           [message |-> UserMessage(question, error_context), reply |-> oracle]>>
    ELSE <<[message |-> UserMessage(question, error_context), reply |-> oracle]>>

\* the client.messages.create calls of one generate_sql call (lines 376-381),
\* each with what the oracle did with it: none when the key is empty (the
\* return of line 369 comes first), otherwise the one call of the try block
OracleRequests(api_key, question, error_context, oracle) ==
    IF api_key = "" THEN <<>>
    ELSE <<[message |-> UserMessage(question, error_context), reply |-> oracle]>>

\* ClaudeClient.generate_sql
GenerateSql(api_key, question, error_context, oracle) ==
    IF api_key = ""
    THEN [error |-> [msg |-> "OPENAI_API_KEY not configured. Set it in environment variables."]]
    ELSE GenerateSqlHandlers(GenerateSqlBody(question, error_context, oracle), oracle)

\* ------------------------------------------------------------------------
\* Inputs of one run
\* ------------------------------------------------------------------------
Questions == {"monthly revenue", "top sellers"}

ApiKeys == {"", "sk-key"}

ApiFailures == {"rate limited"}

\* replies that decode to a JSON object; the sql values are "SELECT 1",
\* " select a;", "DROP t" and "WITH x;drop t"
JsonObjects ==
    { [sql |-> <<"S","E","L","E","C","T"," ","1">>, explanation |-> "monthly totals"],
      [sql |-> <<" ","s","e","l","e","c","t"," ","a",";">>, explanation |-> "seller ranking"],
      [sql |-> <<"S","E","L","E","C","T"," ","1">>],
      [sql |-> <<"D","R","O","P"," ","t">>, explanation |-> "monthly totals"],
      [sql |-> <<"W","I","T","H"," ","x",";","d","r","o","p"," ","t">>,
       explanation |-> "seller ranking"],
      [explanation |-> "monthly totals"] }

\* replies that do not decode: "ok: select b;", "sorry"
RawTexts ==
    { <<"o","k",":"," ","s","e","l","e","c","t"," ","b",";">>,
      <<"s","o","r","r","y">> }

\* replies that decode to a JSON object whose sql is null; the other members
\* of the object are listed
JsonNullSql == { [explanation |-> "monthly totals"] }

\* replies that decode to a JSON number
JsonNumbers == {7}

OracleOutcomes ==
    {[raise |-> c] : c \in ApiFailures}
    \cup {[json |-> o] : o \in JsonObjects}
    \cup {[nullsql |-> o] : o \in JsonNullSql}
    \cup {[number |-> n] : n \in JsonNumbers}
    \cup {[text |-> t] : t \in RawTexts}

\* ------------------------------------------------------------------------
\* 7. MAIN NL2SQL ENGINE: one run of NL2SQLEngine.process_question
\* ------------------------------------------------------------------------
VARIABLES
    pc,              \* position of the run in process_question
    question,        \* the argument of process_question
    max_retries,     \* self.max_retries
    OPENAI_API_KEY,  \* settings.OPENAI_API_KEY
    result,          \* the record under construction, returned at the end
    sql,             \* local sql
    explanation,     \* local explanation
    attempt,         \* loop variable of the for loop
    exec_result,     \* local exec_result
    trace,           \* calls made so far to the client, validator and executor
    parked,          \* the locals of a second run while the first one is scheduled
    calls,           \* the invocations of SQLExecutor.execute and their locals
    conns,           \* the connections sqlite3.connect has opened
    cursors,         \* the cursors conn.cursor() has created
    candidate,       \* the argument of a call of SQLValidator.validate
    returned,        \* what that call returned
    ANTHROPIC_API_KEY,  \* settings.ANTHROPIC_API_KEY
    http_request,    \* the body of the request query_api is handling
    http_response    \* the HTTP response of query_api

\* the locals of one run of process_question
runVars == <<pc, question, result, sql, explanation, attempt, exec_result, trace>>

\* settings read by every run
settingsVars == <<max_retries, OPENAI_API_KEY, ANTHROPIC_API_KEY>>

entryVars == <<http_request, http_response>>

execVars == <<calls, conns, cursors>>

valVars == <<candidate, returned>>

\* what a step of a run leaves alone
outsideRun == <<parked, execVars, valVars, ANTHROPIC_API_KEY, entryVars>>

vars == <<runVars, settingsVars, entryVars, parked, execVars, valVars>>

Terminal == {"done", "failed"}

\* the state in which process_question returns result
Returned(r) == IF r.success THEN "done" ELSE "failed"

InitialRecord_Counted(q) ==
    [success |-> FALSE, question |-> q,
     sql |-> <<>>, explanation |-> "",
     columns |-> <<>>, rows |-> <<>>,
     row_count |-> 0, execution_time_ms |-> 0,
     attempts |-> 1, error |-> None]

InitialRecord_Unasked(q) ==
    [success |-> FALSE, question |-> "",
     sql |-> <<>>, explanation |-> "",
     columns |-> <<>>, rows |-> <<>>,
     row_count |-> 0, execution_time_ms |-> 0,
     attempts |-> 0, error |-> None]

\* result = {...} at the top of process_question
InitialRecord(q) ==
    [success |-> FALSE, question |-> q,
     sql |-> <<>>, explanation |-> "",
     columns |-> <<>>, rows |-> <<>>,
     row_count |-> 0, execution_time_ms |-> 0,
     attempts |-> 0, error |-> None]

InLoopRange_OneMore(a, retries) == a \in 0..(retries + 1)

\* for attempt in range(self.max_retries + 1)
InLoopRange(a, retries) == a \in 0..retries

RetryAllowed_Inclusive(a, retries) == a <= retries

\* if attempt < self.max_retries
RetryAllowed(a, retries) == a < retries

Rejected_Never(validation) == FALSE

\* if not validation["valid"]
Rejected(validation) == ~validation.valid

SuccessRecord_AttemptsOff(r, s, outcome, a) ==
    [r EXCEPT !.success = TRUE, !.sql = s,
              !.columns = outcome.columns,
              !.rows = outcome.rows,
              !.row_count = outcome.row_count,
              !.execution_time_ms = outcome.execution_time_ms,
              !.attempts = a + 2]

SuccessRecord_NoFlag(r, s, outcome, a) ==
    [r EXCEPT !.sql = s,
              !.columns = outcome.columns,
              !.rows = outcome.rows,
              !.row_count = outcome.row_count,
              !.execution_time_ms = outcome.execution_time_ms,
              !.attempts = a + 1]

SuccessRecord_NoRows(r, s, outcome, a) ==
    [r EXCEPT !.success = TRUE, !.sql = s,
              !.columns = outcome.columns,
              !.row_count = outcome.row_count,
              !.execution_time_ms = outcome.execution_time_ms,
              !.attempts = a + 1]

\* result.update({...}) after a successful execution
SuccessRecord(r, s, outcome, a) ==
    [r EXCEPT !.success = TRUE, !.sql = s,
              !.columns = outcome.columns,
              !.rows = outcome.rows,
              !.row_count = outcome.row_count,
              !.execution_time_ms = outcome.execution_time_ms,
              !.attempts = a + 1]

ExhaustedError_NoCause(retries, outcome) ==
    [msg |-> "Failed after attempts: ", n |-> retries + 1, cause |-> None]

\* f"Failed after {self.max_retries + 1} attempts: {exec_result['error']}"
ExhaustedError(retries, outcome) ==
    [msg |-> "Failed after attempts: ", n |-> retries + 1, cause |-> outcome.error]

CorrectedAttempts_Stale(a) == a + 1

\* result["attempts"] = attempt + 2
CorrectedAttempts(a) == a + 2

CorrectedExplanation_Stale(fix_response, first_explanation) == first_explanation

\* result["explanation"] = fix_response.get("explanation", explanation)
CorrectedExplanation(fix_response, first_explanation) ==
    Get(fix_response, "explanation", first_explanation)

GenerateEvent(q, context, oracle, response) ==
    [call |-> "generate", message |-> UserMessage(q, context),
     requests |-> OracleRequests(OPENAI_API_KEY, q, context, oracle),
     ret |-> response]

ValidateEvent(s, verdict) == [call |-> "validate", sql |-> s, ret |-> verdict]

ExecuteEvent(s, outcome) == [call |-> "execute", sql |-> s, ret |-> outcome]

Init ==
    /\ pc = "start"
    /\ question \in Questions
    /\ max_retries \in 0..MaxRetries
    /\ OPENAI_API_KEY \in ApiKeys
    /\ result = None
    /\ sql = <<>>
    /\ explanation = ""
    /\ attempt = 0
    /\ exec_result = None
    /\ trace = <<>>
    /\ parked = None
    /\ calls = <<>>
    /\ conns = <<>>
    /\ cursors = <<>>
    /\ candidate = <<>>
    /\ returned = None
    /\ ANTHROPIC_API_KEY = OPENAI_API_KEY
    /\ http_request = None
    /\ http_response = None

\* the record is created and the first candidate is requested
GenerateFirst ==
    /\ pc = "start"
    /\ \E oracle \in OracleOutcomes :
         LET claude_response == GenerateSql(OPENAI_API_KEY, question, None, oracle)
             r0 == InitialRecord(question)
             failed == [r0 EXCEPT !.error = claude_response.error]
             first == [r0 EXCEPT !.sql = claude_response.sql,
                                 !.explanation = Get(claude_response, "explanation", ""),
                                 !.attempts = 1]
         IN  /\ trace' = Append(trace, GenerateEvent(question, None, oracle, claude_response))
             /\ IF "raised" \in DOMAIN claude_response
                THEN /\ pc' = "raised"
                     /\ result' = r0
                     /\ UNCHANGED <<sql, explanation>>
                ELSE IF "error" \in DOMAIN claude_response
                THEN /\ result' = failed
                     /\ pc' = Returned(failed)
                     /\ UNCHANGED <<sql, explanation>>
                ELSE /\ sql' = claude_response.sql
                     /\ explanation' = Get(claude_response, "explanation", "")
                     /\ result' = first
                     /\ pc' = "validating"
    /\ UNCHANGED <<question, max_retries, OPENAI_API_KEY, attempt, exec_result>>
    /\ UNCHANGED outsideRun

\* the first candidate is validated; the for loop is entered when it is valid
ValidateFirst ==
    /\ pc = "validating"
    /\ LET validation == Validate(sql)
           failed == [result EXCEPT
                          !.error = [msg |-> "Validation failed: ", cause |-> validation.error]]
       IN  /\ trace' = Append(trace, ValidateEvent(sql, validation))
           /\ IF Rejected(validation)
              THEN /\ result' = failed
                   /\ pc' = Returned(failed)
              ELSE /\ result' = result
                   /\ pc' = IF InLoopRange(0, max_retries) THEN "executing"
                            ELSE Returned(result)
    /\ attempt' = 0
    /\ UNCHANGED <<question, max_retries, OPENAI_API_KEY, sql, explanation, exec_result>>
    /\ UNCHANGED outsideRun

\* one pass of the loop body up to the correction request
ExecuteStep ==
    /\ pc = "executing"
    /\ \E engine \in EngineOutcomes :
         LET outcome == Execute(sql, engine)
             succeeded == SuccessRecord(result, sql, outcome, attempt)
             exhausted == [result EXCEPT !.error = ExhaustedError(max_retries, outcome)]
         IN  /\ exec_result' = outcome
             /\ trace' = Append(trace, ExecuteEvent(sql, outcome))
             /\ IF outcome.success
                THEN /\ result' = succeeded
                     /\ pc' = Returned(succeeded)
                     /\ attempt' = attempt
                ELSE IF RetryAllowed(attempt, max_retries)
                THEN /\ result' = result
                     /\ pc' = "correcting"
                     /\ attempt' = attempt
                ELSE /\ result' = exhausted
                     /\ IF InLoopRange(attempt + 1, max_retries)
                        THEN pc' = "executing" /\ attempt' = attempt + 1
                        ELSE pc' = Returned(exhausted) /\ attempt' = attempt
    /\ UNCHANGED <<question, max_retries, OPENAI_API_KEY, sql, explanation>>
    /\ UNCHANGED outsideRun

CorrectionFailure_Counted(r, fix_response) ==
    [r EXCEPT !.error = fix_response.error, !.attempts = @ + 1]

\* result["error"] = fix_response["error"] (line 461)
CorrectionFailure(r, fix_response) == [r EXCEPT !.error = fix_response.error]

\* the correction request for the candidate that just failed
CorrectStep ==
    /\ pc = "correcting"
    /\ \E oracle \in OracleOutcomes :
         LET context == CORRECTION_PROMPT(question, sql, exec_result.error)
             fix_response == GenerateSql(OPENAI_API_KEY, question, context, oracle)
             failed == CorrectionFailure(result, fix_response)
             corrected == [result EXCEPT
                               !.sql = fix_response.sql,
                               !.explanation = CorrectedExplanation(fix_response, explanation),
                               !.attempts = CorrectedAttempts(attempt)]
         IN  /\ trace' = Append(trace, GenerateEvent(question, context, oracle, fix_response))
             /\ IF "raised" \in DOMAIN fix_response
                THEN /\ pc' = "raised"
                     /\ result' = result
                     /\ sql' = sql
                ELSE IF "error" \in DOMAIN fix_response
                THEN /\ result' = failed
                     /\ pc' = Returned(failed)
                     /\ sql' = sql
                ELSE /\ sql' = fix_response.sql
                     /\ result' = corrected
                     /\ pc' = "revalidating"
    /\ UNCHANGED <<question, max_retries, OPENAI_API_KEY, explanation, attempt, exec_result>>
    /\ UNCHANGED outsideRun

\* the corrected candidate is validated; the loop goes on when it is valid
ValidateCorrected ==
    /\ pc = "revalidating"
    /\ LET validation == Validate(sql)
           failed == [result EXCEPT
                          !.error = [msg |-> "Corrected SQL validation failed: ",
                                     cause |-> validation.error]]
       IN  /\ trace' = Append(trace, ValidateEvent(sql, validation))
           /\ IF Rejected(validation)
              THEN /\ result' = failed
                   /\ pc' = Returned(failed)
                   /\ attempt' = attempt
              ELSE /\ result' = result
                   /\ IF InLoopRange(attempt + 1, max_retries)
                      THEN pc' = "executing" /\ attempt' = attempt + 1
                      ELSE pc' = Returned(result) /\ attempt' = attempt
    /\ UNCHANGED <<question, max_retries, OPENAI_API_KEY, sql, explanation, exec_result>>
    /\ UNCHANGED outsideRun

Next ==
    \/ GenerateFirst
    \/ ValidateFirst
    \/ ExecuteStep
    \/ CorrectStep
    \/ ValidateCorrected

Spec == Init /\ [][Next]_vars

\* ------------------------------------------------------------------------
\* Reading the trace of a run
\* ------------------------------------------------------------------------
Calls(kind) == {i \in 1..Len(trace) : trace[i].call = kind}

GenCalls == Calls("generate")

ValCalls == Calls("validate")

ExecCalls == Calls("execute")

\* generation calls that returned a candidate
GenOk == {i \in GenCalls : "sql" \in DOMAIN trace[i].ret}

\* generation calls that returned an error
GenFailed == {i \in GenCalls : "error" \in DOMAIN trace[i].ret}

\* generation calls that carried a correction context
CorrectionCalls == {i \in GenCalls : trace[i].message.prompt = "correction"}

ExecSucceeded == {i \in ExecCalls : trace[i].ret.success}

ExecFailed == ExecCalls \ ExecSucceeded

ValRejected == {i \in ValCalls : ~trace[i].ret.valid}

Last(S) == CHOOSE i \in S : \A j \in S : j <= i

\* ------------------------------------------------------------------------
\* Properties of the orchestrator
\* ------------------------------------------------------------------------

\* C1: every query handed to the Executor was submitted to the Validator
\* earlier in the run and received valid=true, and no candidate that the
\* Validator rejected is ever executed.
ExecutedOnlyAfterValid ==
    /\ \A i \in ExecCalls :
         \E j \in ValCalls : j < i /\ trace[j].sql = trace[i].sql /\ trace[j].ret.valid
    /\ \A j \in ValRejected : \A i \in ExecCalls : trace[i].sql # trace[j].sql

\* a corrected candidate has been executed
CorrectedCandidateExecuted ==
    /\ Cardinality(ExecCalls) >= 2
    /\ trace[Last(ExecCalls)].sql # trace[1].ret.sql

\* the run is over, every generation call returned a candidate, the
\* Validator accepted each of them and every Executor call failed
AlwaysFailingRun ==
    /\ pc \in Terminal
    /\ GenOk = GenCalls
    /\ ValRejected = {}
    /\ ExecCalls # {}
    /\ ExecSucceeded = {}

\* C2: with retry bound R and an Executor that fails on every call, the run
\* ends with success=false and attempts = R+1 after exactly R+1 Executor
\* calls and R correction rounds (attempts = 3 for R = 2).
AlwaysFailingExhaustsBound ==
    AlwaysFailingRun =>
        /\ pc = "failed"
        /\ result.success = FALSE
        /\ result.attempts = max_retries + 1
        /\ Cardinality(ExecCalls) = max_retries + 1
        /\ Cardinality(CorrectionCalls) = max_retries
        /\ (max_retries = 2 => result.attempts = 3)

AlwaysFailingWithBoundTwo ==
    AlwaysFailingRun /\ max_retries = 2 /\ Cardinality(ExecCalls) = 3

\* C3: when the Executor fails k times and then succeeds, the record has
\* success=true and attempts = k+1, which is the number of generation calls
\* of the run (attempts = 2 for one failure under bound 2).
SuccessAfterKFailures ==
    (pc \in Terminal /\ ExecSucceeded # {}) =>
        /\ Cardinality(ExecFailed) <= max_retries
        /\ result.success = TRUE
        /\ result.attempts = Cardinality(ExecFailed) + 1
        /\ result.attempts = Cardinality(GenCalls)

FailOnceThenSucceed ==
    /\ pc = "done"
    /\ max_retries = 2
    /\ Cardinality(ExecFailed) = 1
    /\ result.attempts = 2

\* C4: the record has success=true if and only if exactly one Executor call
\* of the run returned success=true, and nothing is called after that
\* execution.
SuccessIffOneSuccessfulExecution ==
    pc # "start" =>
        /\ result.success <=> Cardinality(ExecSucceeded) = 1
        /\ \A i \in ExecSucceeded : i = Len(trace) /\ pc = "done"

SucceededAfterCorrection ==
    pc = "done" /\ result.success /\ Cardinality(ExecCalls) = 2

\* C5: every run ends in DONE or FAILED after a bounded number of steps:
\* each step of a run that has not returned makes exactly one call, a run
\* that has not returned has made fewer than 3(R+1) calls, and a run never
\* makes more than R+1 Generation Client calls or R+1 Executor calls.
RunTerminatesWithinBound ==
    /\ [](/\ pc \in Terminal \cup {"start", "validating", "executing",
                                    "correcting", "revalidating"}
          /\ Cardinality(GenCalls) <= max_retries + 1
          /\ Cardinality(ExecCalls) <= max_retries + 1
          /\ pc \notin Terminal => Len(trace) < 3 * (max_retries + 1))
    /\ [][pc \notin Terminal /\ Len(trace') = Len(trace) + 1]_vars

BoundReached ==
    /\ pc \in Terminal
    /\ max_retries = MaxRetries
    /\ Cardinality(GenCalls) = max_retries + 1
    /\ Cardinality(ExecCalls) = max_retries + 1

\* C6: a correction round starts only right after an Executor failure and
\* only while fewer than R correction rounds have been performed; each
\* correction round that returns a candidate raises attempts by exactly one,
\* so attempts is always the number of generation calls that returned a
\* candidate and never exceeds R+1.
CorrectionRoundsCounted ==
    /\ [](/\ \A i \in CorrectionCalls :
               /\ i - 1 \in ExecFailed
               /\ Cardinality({j \in CorrectionCalls : j < i}) < max_retries
          /\ pc # "start" =>
               /\ result.attempts = Cardinality(GenOk)
               /\ result.attempts <= max_retries + 1)
    /\ [][pc = "correcting" /\ pc' = "revalidating"
            => result'.attempts = result.attempts + 1]_vars

SecondCorrectionCounted ==
    /\ Cardinality(CorrectionCalls) = 2
    /\ CorrectionCalls \subseteq GenOk
    /\ result.attempts = 3

\* C7: when the Validator rejects the first candidate the run is over at
\* once with success=false and an error carrying the validator's reason,
\* after exactly one Generation Client call and no Executor or correction
\* call.
FirstRejectionIsTerminal ==
    (Len(trace) >= 2 /\ 2 \in ValRejected) =>
        /\ pc = "failed"
        /\ result.success = FALSE
        /\ result.error = [msg |-> "Validation failed: ", cause |-> trace[2].ret.error]
        /\ trace[2].ret.error # None
        /\ Len(trace) = 2
        /\ GenCalls = {1}
        /\ ExecCalls = {}
        /\ CorrectionCalls = {}

FirstCandidateRejected ==
    pc = "failed" /\ Len(trace) = 2 /\ 2 \in ValRejected

\* validator rejections of corrected candidates
CorrectedRejected == {i \in ValRejected : i > 2}

\* C8: when the Validator rejects a corrected candidate the run is over at
\* that point with success=false, even when correction rounds remain: the
\* rejected candidate is not executed, no further Generation Client call is
\* made, and the record's sql is the rejected candidate.
CorrectedRejectionIsTerminal ==
    \A i \in CorrectedRejected :
        /\ pc = "failed"
        /\ result.success = FALSE
        /\ i = Len(trace)
        /\ result.sql = trace[i].sql
        /\ result.error = [msg |-> "Corrected SQL validation failed: ",
                           cause |-> trace[i].ret.error]
        /\ \A j \in ExecCalls : trace[j].sql # trace[i].sql

\* a corrected candidate is rejected while a correction round remains
CorrectedRejectedWithRoundsLeft ==
    /\ CorrectedRejected # {}
    /\ Cardinality(CorrectionCalls) < max_retries

\* the run is over because the last pass of the loop failed
BoundExhausted ==
    /\ pc \in Terminal
    /\ ExecSucceeded = {}
    /\ Cardinality(ExecCalls) = max_retries + 1

\* C9: when the retry bound is exhausted without a successful execution the
\* record has success=false and its error carries the error of the last
\* Executor call of the run.
ExhaustionCarriesLastError ==
    BoundExhausted =>
        /\ pc = "failed"
        /\ result.success = FALSE
        /\ result.error.msg = "Failed after attempts: "
        /\ result.error.n = max_retries + 1
        /\ result.error.cause = trace[Last(ExecCalls)].ret.error
        /\ Last(ExecCalls) = Len(trace)

\* the bound is exhausted and the last execution error is not the first one
ExhaustedWithDifferentErrors ==
    /\ BoundExhausted
    /\ max_retries >= 1
    /\ trace[Last(ExecCalls)].ret.error # trace[3].ret.error

\* C10: when the first Generation Client call returns an error the run is
\* over at once with success=false, attempts=0, empty sql and explanation,
\* the oracle's error as the record error, and no Validator or Executor call.
FirstGenerationErrorIsTerminal ==
    (Len(trace) >= 1 /\ "error" \in DOMAIN trace[1].ret) =>
        /\ pc = "failed"
        /\ Len(trace) = 1
        /\ result.success = FALSE
        /\ result.attempts = 0
        /\ result.sql = <<>>
        /\ result.explanation = ""
        /\ result.error = trace[1].ret.error
        /\ result.error # None
        /\ ValCalls = {}
        /\ ExecCalls = {}

\* the oracle call itself failed on the first request
FirstGenerationFailed ==
    /\ pc = "failed"
    /\ Len(trace) = 1
    /\ OPENAI_API_KEY # ""
    /\ "error" \in DOMAIN trace[1].ret

\* C11: in every terminal state in which a candidate was generated, the
\* record's sql is the most recently generated candidate and the record's
\* explanation is the one returned in the same generation response.
RecordReportsLastCandidate ==
    (pc \in Terminal /\ GenOk # {}) =>
        /\ result.sql = trace[Last(GenOk)].ret.sql
        /\ result.explanation = trace[Last(GenOk)].ret.explanation

\* a run that failed after a correction whose explanation and candidate
\* differ from those of the first response
FailedAfterDifferentCorrection ==
    /\ pc = "failed"
    /\ Cardinality(GenOk) >= 2
    /\ trace[Last(GenOk)].ret.explanation # trace[1].ret.explanation
    /\ trace[Last(GenOk)].ret.sql # trace[1].ret.sql

\* C12: process_question never raises to its caller, and a run that met a
\* missing credential, a failed or undecodable oracle reply, a validator
\* rejection, or failing executions up to the retry bound has returned a
\* record whose error field is set.
NoCauseEscapes ==
    /\ pc # "raised"
    /\ (pc \notin {"start", "validating", "executing", "correcting", "revalidating"}
          /\ \/ OPENAI_API_KEY = ""
             \/ GenFailed # {}
             \/ ValRejected # {}
             \/ Cardinality(ExecFailed) = max_retries + 1)
       => /\ pc = "failed"
          /\ result.error # None

\* a correction reply that decoded to an object with a null sql, which makes
\* the try block raise AttributeError, ended the run with an error record
NullSqlCorrectionReturned ==
    /\ pc = "failed"
    /\ CorrectionCalls # {}
    /\ "error" \in DOMAIN trace[Len(trace)].ret
    /\ "cause" \in DOMAIN result.error
    /\ result.error.cause = "'NoneType' object has no attribute 'strip'"

\* ------------------------------------------------------------------------
\* Invocations of SQLExecutor.execute, one step per engine call
\* ------------------------------------------------------------------------
\* no run of process_question is in progress
NoRun ==
    /\ pc = "off"
    /\ question = ""
    /\ max_retries = 0
    /\ OPENAI_API_KEY = ""
    /\ result = None
    /\ sql = <<>>
    /\ explanation = ""
    /\ attempt = 0
    /\ exec_result = None
    /\ trace = <<>>
    /\ parked = None
    /\ ANTHROPIC_API_KEY = ""
    /\ http_request = None
    /\ http_response = None

NoValidation ==
    /\ candidate = <<>>
    /\ returned = None

\* an invocation that has not started: its arguments
Invocation(q, m) ==
    [pc |-> "idle", sql |-> q, max_rows |-> m, cap |-> 0, sent |-> <<>>,
     conn |-> 0, cursor |-> 0, fault |-> None, ret |-> None]

\* one invocation, with any query and any cap
ExecInit ==
    /\ NoRun
    /\ NoValidation
    /\ \E q \in ExecQueries, m \in MaxRowsArgs :
         calls = [c \in 1..MaxCalls |->
                     IF c = 1 THEN Invocation(q, m)
                     ELSE [Invocation(q, m) EXCEPT !.pc = "unused"]]
    /\ conns = <<>>
    /\ cursors = <<>>

\* MaxCalls invocations at the same time, on threads of their own
ConcInit ==
    /\ NoRun
    /\ NoValidation
    /\ \E q \in ExecQueries :
         calls = [c \in 1..MaxCalls |-> Invocation(q, None)]
    /\ conns = <<>>
    /\ cursors = <<>>

Caught_AfterConnect(stage) == stage # "connect"

\* the try block (lines 318-348) holds the connect, execute and fetch calls
\* and its except clause takes every Exception
Caught(stage) == stage \in {"connect", "execute", "fetch"}

NewConnection_Cached(opened) == 1

\* sqlite3.connect(str(db_path)) makes a connection object of its own
NewConnection(opened) == Len(opened) + 1

\* the locals of invocation c after the engine raised e at a stage
Failed(c, stage, e) ==
    IF Caught(stage)
    THEN [calls[c] EXCEPT !.pc = "returned",
                          !.fault = [stage |-> stage, msg |-> e],
                          !.ret = FailureOutcome(e)]
    ELSE [calls[c] EXCEPT !.pc = "raised",
                          !.fault = [stage |-> stage, msg |-> e]]

\* lines 309-316: the cap and the form of the query that is sent
ExecBegin ==
    /\ \E c \in DOMAIN calls :
         /\ calls[c].pc = "idle"
         /\ LET cap == EffectiveCap(calls[c].max_rows)
            IN  calls' = [calls EXCEPT ![c].pc = "connecting",
                                       ![c].cap = cap,
                                       ![c].sent = SentForm(calls[c].sql, cap)]
    /\ UNCHANGED <<conns, cursors, runVars, settingsVars, entryVars, parked, valVars>>

\* lines 319-321: connect and conn.cursor()
ExecConnect ==
    /\ \E c \in DOMAIN calls :
         /\ calls[c].pc = "connecting"
         /\ \/ \E e \in ConnectErrors :
                 /\ calls' = [calls EXCEPT ![c] = Failed(c, "connect", e)]
                 /\ UNCHANGED <<conns, cursors>>
            \/ LET id == NewConnection(conns)
               IN  /\ conns' = IF id \in DOMAIN conns THEN conns
                               ELSE Append(conns, [open |-> TRUE, opener |-> c])
                   /\ cursors' = Append(cursors, [conn |-> id])
                   /\ calls' = [calls EXCEPT ![c].pc = "running",
                                             ![c].conn = id,
                                             ![c].cursor = Len(cursors) + 1]
    /\ UNCHANGED <<runVars, settingsVars, entryVars, parked, valVars>>

\* line 322: cursor.execute(sql)
ExecRun ==
    /\ \E c \in DOMAIN calls :
         /\ calls[c].pc = "running"
         /\ \/ \E e \in EngineErrors :
                 calls' = [calls EXCEPT ![c] = Failed(c, "execute", e)]
            \/ calls' = [calls EXCEPT ![c].pc = "fetching"]
    /\ UNCHANGED <<conns, cursors, runVars, settingsVars, entryVars, parked, valVars>>

\* lines 324-348: the rows are fetched and converted, the connection is
\* closed and the Outcome is returned
ExecFetch ==
    /\ \E c \in DOMAIN calls :
         /\ calls[c].pc = "fetching"
         /\ \/ /\ \E e \in FetchErrors :
                    calls' = [calls EXCEPT ![c] = Failed(c, "fetch", e)]
               /\ UNCHANGED conns
            \/ /\ calls' = [calls EXCEPT
                               ![c].pc = "returned",
                               ![c].ret = SuccessOutcome(<<"a">>, FetchAll(calls[c].sent), 7)]
               /\ conns' = [conns EXCEPT ![calls[c].conn].open = FALSE]
    /\ UNCHANGED <<cursors, runVars, settingsVars, entryVars, parked, valVars>>

\* the runtime finalises a connection object that no invocation in progress
\* refers to any more; when it does so is up to the runtime
Finalize ==
    /\ \E k \in DOMAIN conns :
         /\ conns[k].open
         /\ \A c \in DOMAIN calls :
                calls[c].conn = k => calls[c].pc \in {"returned", "raised"}
         /\ conns' = [conns EXCEPT ![k].open = FALSE]
    /\ UNCHANGED <<calls, cursors, runVars, settingsVars, entryVars, parked, valVars>>

ExecNext ==
    \/ ExecBegin
    \/ ExecConnect
    \/ ExecRun
    \/ ExecFetch
    \/ Finalize

ExecSpec == ExecInit /\ [][ExecNext]_vars

ConcSpec == ConcInit /\ [][ExecNext]_vars

\* invocations that have returned an Outcome
ReturnedCalls == {c \in DOMAIN calls : calls[c].pc = "returned"}

\* C13: after execute has returned, with success=true or with success=false,
\* no connection that the call opened is still open.
ConnectionReleasedOnReturn ==
    \A c \in ReturnedCalls :
        \A k \in DOMAIN conns : conns[k].opener = c => ~conns[k].open

\* C14: an engine failure at connect, execute or fetch is never raised to
\* the caller; the call returns success=false, the engine's message as
\* error, no columns, no rows and row_count 0.
EngineFailureIsReturned ==
    \A c \in DOMAIN calls :
        /\ calls[c].pc # "raised"
        /\ calls[c].fault # None =>
              /\ calls[c].pc = "returned"
              /\ ~calls[c].ret.success
              /\ calls[c].ret.error = [msg |-> calls[c].fault.msg]
              /\ calls[c].ret.columns = <<>>
              /\ calls[c].ret.rows = <<>>
              /\ calls[c].ret.row_count = 0

\* every stage has failed in some invocation: here the connect call
ConnectFailureReturned ==
    \E c \in ReturnedCalls :
        /\ calls[c].fault # None
        /\ calls[c].fault.stage = "connect"
        /\ calls[c].conn = 0

\* invocations that have computed the form they send
BegunCalls == {c \in DOMAIN calls : calls[c].pc \notin {"unused", "idle"}}

\* the query has a row-limiting clause: LIMIT stands in it as a word
HasLimitClause(q) == WholeWordIn(Upper(q), KwLimit)

\* C15: a query with no row-limiting clause is sent with a limit of exactly
\* the cap appended; a query that has one is sent unmodified.
UnlimitedQueryGetsCap ==
    \A c \in BegunCalls :
        IF HasLimitClause(calls[c].sql)
        THEN calls[c].sent = calls[c].sql
        ELSE /\ LimitOf(calls[c].sent) = calls[c].cap
             /\ calls[c].sent =
                    RStripSemi(calls[c].sql) \o <<" ">> \o KwLimit \o <<" ">>
                        \o Dec(calls[c].cap)

\* C16: a successful Outcome has row_count <= max_rows, for every query and
\* every cap.
RowCountWithinCap ==
    \A c \in ReturnedCalls :
        calls[c].ret.success => calls[c].ret.row_count <= calls[c].cap

\* C17: invocations of execute that run at the same time never hold the same
\* connection or the same cursor.
InvocationsShareNothing ==
    \A c \in DOMAIN calls : \A d \in DOMAIN calls :
        (c # d /\ calls[c].conn # 0 /\ calls[d].conn # 0) =>
            /\ calls[c].conn # calls[d].conn
            /\ calls[c].cursor # calls[d].cursor
            /\ cursors[calls[c].cursor].conn = calls[c].conn
            /\ conns[calls[c].conn].opener = c

\* two invocations are between connect and fetch at the same time
TwoInvocationsConnected ==
    \E c \in DOMAIN calls : \E d \in DOMAIN calls :
        /\ c # d
        /\ calls[c].pc = "fetching"
        /\ calls[d].pc = "running"
        /\ conns[calls[c].conn].open
        /\ conns[calls[d].conn].open

\* ------------------------------------------------------------------------
\* Two runs of process_question whose steps interleave (views.query_api
\* makes one engine per request)
\* ------------------------------------------------------------------------
\* the locals of a run that is not scheduled
Locals(p, q, r, s, e, a, x, t) ==
    [pc |-> p, question |-> q, result |-> r, sql |-> s, explanation |-> e,
     attempt |-> a, exec_result |-> x, trace |-> t]

RestoredSql_Shared(own, other) == other

\* sql is a local of process_question (line 431): a run that is scheduled
\* again finds its own value
RestoredSql(own, other) == own

RunsInit ==
    /\ pc = "start"
    /\ question = "monthly revenue"
    /\ max_retries = 1
    /\ OPENAI_API_KEY = "sk-key"
    /\ result = None
    /\ sql = <<>>
    /\ explanation = ""
    /\ attempt = 0
    /\ exec_result = None
    /\ trace = <<>>
    /\ parked = Locals("start", "top sellers", None, <<>>, "", 0, None, <<>>)
    /\ calls = <<>>
    /\ conns = <<>>
    /\ cursors = <<>>
    /\ NoValidation
    /\ ANTHROPIC_API_KEY = "sk-key"
    /\ http_request = None
    /\ http_response = None

\* a run that has returned: its locals are gone
Retired == Locals("retired", "", None, <<>>, "", 0, None, <<>>)

\* the scheduler takes the running run off the processor and puts the other
\* one on
Switch ==
    /\ parked.pc # "retired"
    /\ parked' = IF pc \in Terminal THEN Retired
                 ELSE Locals(pc, question, result, sql, explanation, attempt,
                             exec_result, trace)
    /\ pc' = parked.pc
    /\ question' = parked.question
    /\ result' = parked.result
    /\ sql' = RestoredSql(parked.sql, sql)
    /\ explanation' = parked.explanation
    /\ attempt' = parked.attempt
    /\ exec_result' = parked.exec_result
    /\ trace' = parked.trace
    /\ UNCHANGED <<settingsVars, entryVars, execVars, valVars>>

RunsNext ==
    \/ GenerateFirst
    \/ ValidateFirst
    \/ ExecuteStep
    \/ CorrectStep
    \/ ValidateCorrected
    \/ Switch

RunsSpec == RunsInit /\ [][RunsNext]_vars

\* the responses a run received, in the order it received them
Responses(t, kind) ==
    LET at == {i \in 1..Len(t) : t[i].call = kind}
        nth(n) == CHOOSE i \in at : Cardinality({j \in at : j <= i}) = n
    IN  [n \in 1..Cardinality(at) |-> t[nth(n)].ret]

\* the responses do not take a run alone to its return
Pending == [pending |-> TRUE]

RECURSIVE LoopAlone(_, _, _, _, _, _, _)
\* the for loop of process_question from pass a on, run without interruption
\* on the generation responses gens and the execution responses execs
LoopAlone(r, s, e, a, retries, gens, execs) ==
    IF ~InLoopRange(a, retries) THEN r
    ELSE IF a + 1 > Len(execs) THEN Pending
    ELSE IF ~execs[a + 1].success /\ RetryAllowed(a, retries) /\ a + 2 > Len(gens)
    THEN Pending
    ELSE LET outcome == execs[a + 1]
             fix == gens[a + 2]
             corrected == [r EXCEPT !.sql = fix.sql,
                                    !.explanation = CorrectedExplanation(fix, e),
                                    !.attempts = CorrectedAttempts(a)]
         IN  IF outcome.success THEN SuccessRecord(r, s, outcome, a)
             ELSE IF ~RetryAllowed(a, retries)
             THEN LoopAlone([r EXCEPT !.error = ExhaustedError(retries, outcome)],
                            s, e, a + 1, retries, gens, execs)
             ELSE IF "error" \in DOMAIN fix THEN [r EXCEPT !.error = fix.error]
             ELSE IF Rejected(Validate(fix.sql))
             THEN [corrected EXCEPT
                      !.error = [msg |-> "Corrected SQL validation failed: ",
                                 cause |-> Validate(fix.sql).error]]
             ELSE LoopAlone(corrected, fix.sql, e, a + 1, retries, gens, execs)

\* the record process_question returns when nothing else runs
Alone(q, retries, gens, execs) ==
    LET r0 == InitialRecord(q)
        first == [r0 EXCEPT !.sql = gens[1].sql,
                            !.explanation = Get(gens[1], "explanation", ""),
                            !.attempts = 1]
    IN  IF gens = <<>> THEN Pending
        ELSE IF "error" \in DOMAIN gens[1] THEN [r0 EXCEPT !.error = gens[1].error]
        ELSE IF Rejected(Validate(gens[1].sql))
        THEN [first EXCEPT !.error = [msg |-> "Validation failed: ",
                                      cause |-> Validate(gens[1].sql).error]]
        ELSE LoopAlone(first, gens[1].sql, first.explanation, 0, retries, gens, execs)

\* C18: under every interleaving of two runs, the record a run returns is the
\* record it would produce alone on the oracle and executor responses it
\* received.
RunsAreIndependent ==
    pc \in Terminal =>
        result = Alone(question, max_retries,
                       Responses(trace, "generate"), Responses(trace, "execute"))

\* a run returns after a correction while the other run, which works on a
\* different candidate, is in the middle of a correction of its own
ReturnedWhileOtherCorrects ==
    /\ pc = "done"
    /\ Cardinality(GenOk) = 2
    /\ parked.pc = "revalidating"
    /\ Len(parked.trace) = 4
    /\ parked.sql # sql

\* ------------------------------------------------------------------------
\* Calls of SQLValidator.validate on candidates of every shape
\* ------------------------------------------------------------------------
LowerChar(c) ==
    IF \E i \in 1..26 : UpperLetters[i] = c
    THEN LowerLetters[CHOOSE i \in 1..26 : UpperLetters[i] = c]
    ELSE c

\* the spellings of a keyword: upper case, lower case, alternating case
Spellings(kw) ==
    { kw,
      [i \in 1..Len(kw) |-> LowerChar(kw[i])],
      [i \in 1..Len(kw) |-> IF i % 2 = 0 THEN LowerChar(kw[i]) ELSE kw[i]] }

\* "", " ", "\n\t "
LeadingBlanks == { <<>>, <<" ">>, <<"\n","\t"," ">> }

\* texts a candidate starts with after its leading blanks
Heads ==
    { <<>>,
      <<"S","E","L","E","C","T"," ","1">>,
      <<"s","e","l","e","c","t"," ","1">>,
      <<"S","e","L","e","C","t"," ","1">>,
      <<"W","I","T","H"," ","x">>,
      <<"w","I","t","H"," ","x">>,
      <<"x"," ","S","E","L","E","C","T"," ","1">>,
      <<"(","S","E","L","E","C","T"," ","1",")">>,
      <<"S","E","L","E","C"," ","1">>,
      <<"S","H","O","W"," ","t">>,
      <<"W","I","T"," ","x">>,
      <<"-","-"," ","S","E","L","E","C","T">> }

\* "SELECT a", "with x"
AllowedHeads == { <<"S","E","L","E","C","T"," ","a">>, <<"w","i","t","h"," ","x">> }

\* what stands before a keyword: " ", ";", "\n", "(", "_", "a"
Before == { <<" ">>, <<";">>, <<"\n">>, <<"(">>, <<"_">>, <<"a">> }

\* what stands after a keyword: "", " t", ";", ")", "s", "_x", "1"
After == { <<>>, <<" ","t">>, <<";">>, <<")">>, <<"s">>, <<"_","x">>, <<"1">> }

\* what follows the first statement: nothing, separators with blanks, or
\* separators with more text
Tails ==
    { <<>>,
      <<";">>,
      <<";"," ">>,
      <<";",";">>,
      <<" ",";","\n">>,
      <<";","S","E","L","E","C","T"," ","2">>,
      <<";"," ","s","e","l","e","c","t"," ","2",";">>,
      <<";","x">>,
      <<";",";","w","i","t","h"," ","y">>,
      <<" ",";"," ",";"," ","2">>,
      <<"'",";","'">>,
      <<"\n">> }

\* candidates for the start check, candidates that start as they should and
\* go on after a ';', and candidates that start as they should and hold a
\* denylisted keyword, or a longer word around it, further on
ValCandidates ==
    { b \o h : b \in LeadingBlanks, h \in Heads }
    \cup { b \o h \o t : b \in LeadingBlanks, h \in AllowedHeads \cup {<<";">>}, t \in Tails }
    \cup { h \o l \o w \o r :
             h \in AllowedHeads, l \in Before, r \in After,
             w \in UNION {Spellings(BLOCKED_KEYWORDS[k]) : k \in DOMAIN BLOCKED_KEYWORDS} }

ValInit ==
    /\ NoRun
    /\ calls = <<>>
    /\ conns = <<>>
    /\ cursors = <<>>
    /\ candidate \in ValCandidates
    /\ returned = None

\* validator.validate(candidate)
ValidateCall ==
    /\ returned = None
    /\ returned' = Validate(candidate)
    /\ UNCHANGED <<candidate, runVars, settingsVars, entryVars, parked, execVars>>

ValNext == ValidateCall

ValSpec == ValInit /\ [][ValNext]_vars

\* the candidate is empty or holds only whitespace
IsBlank(c) == \A i \in 1..Len(c) : c[i] \in Whitespace

\* after n leading whitespace characters the candidate goes on with word, in
\* any case
BeginsWith(c, word) ==
    \E n \in 0..Len(c) :
        /\ \A i \in 1..n : c[i] \in Whitespace
        /\ n + Len(word) <= Len(c)
        /\ \A j \in 1..Len(word) : UpperChar(c[n + j]) = word[j]

\* word stands in the candidate as a whole word, in any case
OccursAsWord(c, word) ==
    \E i \in 1..(Len(c) - Len(word) + 1) :
        /\ \A j \in 1..Len(word) : UpperChar(c[i + j - 1]) = word[j]
        /\ i > 1 => ~IsWordChar(c[i - 1])
        /\ i + Len(word) <= Len(c) => ~IsWordChar(c[i + Len(word)])

\* C19: validate returns valid=false for every candidate that is empty or
\* whitespace-only and for every candidate that, leading whitespace trimmed
\* and case ignored, does not begin with SELECT or WITH.
BadStartRejected ==
    returned # None =>
        ((IsBlank(candidate)
            \/ (~BeginsWith(candidate, KwSelect) /\ ~BeginsWith(candidate, KwWith)))
         => ~returned.valid)

\* a candidate with leading whitespace that goes on with something else than
\* SELECT or WITH was rejected for its start
WrongStartAfterBlanksRejected ==
    /\ returned # None
    /\ ~returned.valid
    /\ returned.error = [msg |-> "Only SELECT queries are allowed"]
    /\ Len(candidate) > 3
    /\ candidate[1] = "\n"
    /\ Contains(candidate, KwSelect)

\* C20: validate returns valid=false for every candidate in which one of the
\* 19 denylisted keywords stands as a whole word, at any position and in any
\* mix of upper and lower case.
BlockedKeywordRejected ==
    returned # None =>
        ((\E k \in DOMAIN BLOCKED_KEYWORDS : OccursAsWord(candidate, BLOCKED_KEYWORDS[k]))
         => ~returned.valid)

\* a candidate that starts with a lower-case with and ends with pragma in
\* alternating case was rejected for that keyword
MixedCaseKeywordAtEndRejected ==
    /\ returned # None
    /\ ~returned.valid
    /\ "keyword" \in DOMAIN returned.error
    /\ returned.error.keyword = BLOCKED_KEYWORDS[19]
    /\ candidate[1] = "w"
    /\ SubSeq(candidate, Len(candidate) - 5, Len(candidate)) = <<"P","r","A","g","M","a">>

\* two characters that belong to statements stand on both sides of a ';'
SeveralStatements(c) ==
    \E i \in 1..Len(c) : \E k \in (i + 1)..Len(c) : \E j \in (k + 1)..Len(c) :
        /\ c[k] = ";"
        /\ c[i] \notin Whitespace \cup {";"}
        /\ c[j] \notin Whitespace \cup {";"}

\* the candidate is text without ';' that validate accepts, and one ';'
AcceptableWithTrailingSemicolon(c) ==
    /\ Len(c) > 1
    /\ c[Len(c)] = ";"
    /\ \A i \in 1..(Len(c) - 1) : c[i] # ";"
    /\ Validate(SubSeq(c, 1, Len(c) - 1)).valid

\* C21: validate returns valid=false for every candidate that splits on ';'
\* into more than one non-empty statement, and a candidate that is acceptable
\* without its single trailing ';' is valid with it.
StackedRejectedTrailingAccepted ==
    returned # None =>
        /\ SeveralStatements(candidate) => ~returned.valid
        /\ AcceptableWithTrailingSemicolon(candidate) => returned.valid

\* a candidate with leading blanks and one trailing ';' was accepted
TrailingSemicolonAccepted ==
    /\ returned # None
    /\ returned.valid
    /\ candidate[1] = "\n"
    /\ AcceptableWithTrailingSemicolon(candidate)

\* C22: validate returns valid=true exactly for the candidates that are not
\* blank, begin with SELECT or WITH, hold no denylisted keyword as a whole
\* word and hold at most one non-empty statement; the verdict's reason is
\* null if and only if valid=true.
ValidExactlyWhenAcceptable ==
    returned # None =>
        /\ returned.valid <=>
              /\ ~IsBlank(candidate)
              /\ BeginsWith(candidate, KwSelect) \/ BeginsWith(candidate, KwWith)
              /\ \A k \in DOMAIN BLOCKED_KEYWORDS :
                     ~OccursAsWord(candidate, BLOCKED_KEYWORDS[k])
              /\ ~SeveralStatements(candidate)
        /\ returned.error = None <=> returned.valid

\* a candidate that holds a denylisted keyword inside a longer word was
\* accepted
KeywordInsideWordAccepted ==
    /\ returned # None
    /\ returned.valid
    /\ returned.error = None
    /\ \E k \in DOMAIN BLOCKED_KEYWORDS : Contains(Upper(candidate), BLOCKED_KEYWORDS[k])

\* ------------------------------------------------------------------------
\* Validations by several callers at the same time
\* ------------------------------------------------------------------------
\* "SELECT 1", "drop t", "SELECT 1;x", ""
PureCandidates == { <<"S","E","L","E","C","T"," ","1">>, <<"d","r","o","p"," ","t">>, <<"S","E","L","E","C","T"," ","1",";","x">>, <<>> }

\* no caller is inside validate and nothing was validated yet
PureInit ==
    /\ NoRun
    /\ calls = <<>>
    /\ conns = <<>>
    /\ cursors = <<>>
    /\ candidate = [c \in 1..MaxCallers |-> None]
    /\ returned = None

VerdictAfter_Sticky(earlier, cand) ==
    IF earlier # <<>> /\ ~earlier[Len(earlier)].ret.valid
    THEN earlier[Len(earlier)].ret
    ELSE Validate(cand)

\* what validate returns for a candidate after the earlier validations: the
\* method reads its argument and cls.BLOCKED_KEYWORDS and nothing else
VerdictAfter(earlier, cand) == Validate(cand)

\* a caller enters validate with an argument
ValidateEnter ==
    /\ Len(trace) < MaxValidations
    /\ \E c \in DOMAIN candidate : \E s \in PureCandidates :
         /\ candidate[c] = None
         /\ candidate' = [candidate EXCEPT ![c] = [sql |-> s]]
    /\ UNCHANGED <<returned, runVars, settingsVars, entryVars, parked, execVars>>

\* a caller leaves validate with the verdict
ValidateReturn ==
    /\ \E c \in DOMAIN candidate :
         /\ candidate[c] # None
         /\ LET v == VerdictAfter(trace, candidate[c].sql)
            IN  /\ returned' = v
                /\ trace' = Append(trace, ValidateEvent(candidate[c].sql, v))
         /\ candidate' = [candidate EXCEPT ![c] = None]
    /\ UNCHANGED <<pc, question, result, sql, explanation, attempt, exec_result,
                   settingsVars, entryVars, parked, execVars>>

PureNext ==
    \/ ValidateEnter
    \/ ValidateReturn

PureSpec == PureInit /\ [][PureNext]_vars

EveryCallSendsOneRequest ==
    \A i \in GenCalls : Len(trace[i].requests) = 1

\* C24: a call of generate_sql sends one request to the oracle when the key
\* is set and none when the key is empty; it never sends a second request,
\* whatever the oracle did with the first; the only further requests of a run
\* are those of the orchestrator's correction calls.
OneRequestWhenKeySet ==
    /\ \A i \in GenCalls :
           Len(trace[i].requests) = IF OPENAI_API_KEY = "" THEN 0 ELSE 1
    /\ Cardinality(GenCalls) <= max_retries + 1

\* a run ended on a correction call whose one request the oracle failed
FailedRequestNotRepeated ==
    /\ pc = "failed"
    /\ Cardinality(CorrectionCalls) = 2
    /\ Len(trace[Len(trace)].requests) = 1
    /\ "raise" \in DOMAIN trace[Len(trace)].requests[1].reply

\* C25: the first generation request of a run is the plain message for the
\* question; every later one is the correction message made of the question,
\* the candidate whose execution has just failed, which is the most recent
\* candidate, and the error of that execution.
CorrectionCarriesLastFailure ==
    /\ GenCalls # {} =>
          /\ 1 \in GenCalls
          /\ trace[1].message = [prompt |-> "convert", question |-> question]
    /\ \A i \in GenCalls :
          /\ \A k \in 1..Len(trace[i].requests) :
                 trace[i].requests[k].message = trace[i].message
          /\ i > 1 =>
                /\ trace[i - 1].call = "execute"
                /\ ~trace[i - 1].ret.success
                /\ trace[i].message =
                       [prompt |-> "correction", question |-> question,
                        sql |-> trace[i - 1].sql, error |-> trace[i - 1].ret.error]
                /\ trace[i - 1].sql = trace[Last({g \in GenOk : g < i})].ret.sql

\* the second correction request carries the corrected candidate, not the
\* first one, and the error of the second execution, not of the first
SecondCorrectionCarriesSecondFailure ==
    /\ Cardinality(CorrectionCalls) = 2
    /\ trace[Last(CorrectionCalls)].message.sql # trace[1].ret.sql
    /\ trace[Last(CorrectionCalls)].message.error # trace[3].ret.error
    /\ Len(trace[Last(CorrectionCalls)].requests) = 1

\* ------------------------------------------------------------------------
\* Single calls of ClaudeClient.generate_sql on replies of every shape
\* ------------------------------------------------------------------------
\* what stands before the keyword in a reply: "", "ok: ", "x"
ReplyPrefixes == { <<>>, <<"o","k",":"," ">>, <<"x">> }

\* what stands after it: "", " ", "  ", " b", "\nb;", " b; ", "ed b", ";"
ReplySuffixes == { <<>>, <<" ">>, <<" "," ">>, <<" ","b">>, <<"\n","b",";">>, <<" ","b",";"," ">>, <<"e","d"," ","b">>, <<";">> }

\* replies that do not decode: a SELECT or WITH in some spelling, or sorry,
\* between a prefix and a suffix
ClientTexts ==
    { a \o w \o b :
        a \in ReplyPrefixes, b \in ReplySuffixes,
        w \in Spellings(KwSelect) \cup Spellings(KwWith) \cup {<<"s","o","r","r","y">>} }

ClientReplies ==
    OracleOutcomes \cup {[text |-> t] : t \in ClientTexts}

ClientInit ==
    /\ pc = "client"
    /\ question \in Questions
    /\ max_retries = 0
    /\ OPENAI_API_KEY \in ApiKeys
    /\ result = None
    /\ sql = <<>>
    /\ explanation = ""
    /\ attempt = 0
    /\ exec_result = None
    /\ trace = <<>>
    /\ parked = None
    /\ calls = <<>>
    /\ conns = <<>>
    /\ cursors = <<>>
    /\ NoValidation
    /\ ANTHROPIC_API_KEY = OPENAI_API_KEY
    /\ http_request = None
    /\ http_response = None

\* ClaudeClient.generate_sql(question)
ClientCall ==
    /\ pc = "client"
    /\ \E oracle \in ClientReplies :
         trace' = <<GenerateEvent(question, None, oracle,
                                  GenerateSql(OPENAI_API_KEY, question, None, oracle))>>
    /\ pc' = "called"
    /\ UNCHANGED <<question, result, sql, explanation, attempt, exec_result,
                   settingsVars, entryVars, parked, execVars, valVars>>

ClientNext == ClientCall

ClientSpec == ClientInit /\ [][ClientNext]_vars

\* calls of generate_sql whose request the oracle answered
Answered ==
    {i \in GenCalls : trace[i].requests # <<>>
                        /\ "raise" \notin DOMAIN trace[i].requests[1].reply}

\* in any case, SELECT or WITH stands at position i of the text, whitespace
\* follows it and the text goes on after that
ClauseAt(text, i) ==
    \E kw \in {KwSelect, KwWith} :
        /\ i + Len(kw) + 1 <= Len(text)
        /\ \A j \in 1..Len(kw) : UpperChar(text[i + j - 1]) = kw[j]
        /\ text[i + Len(kw)] \in Whitespace

\* the text from its first clause on, up to the blanks and ';' that end it
ScannedCandidate(text, cand) ==
    \E i \in 1..Len(text) :
        /\ ClauseAt(text, i)
        /\ \A h \in 1..(i - 1) : ~ClauseAt(text, h)
        /\ \E last \in i..Len(text) :
              /\ cand = SubSeq(text, i, last)
              /\ text[last] # ";"
              /\ \A h \in (last + 1)..Len(text) : text[h] \in Whitespace \cup {";"}

IsCallFailure(ret) ==
    /\ "error" \in DOMAIN ret
    /\ ret.error.msg = "Claude API error: "

\* C27: generate_sql reports the call-failure error only when the oracle call
\* failed; a reply that was received never produces it.
CallFailureOnlyWhenCallFailed ==
    \A i \in GenCalls :
        IsCallFailure(trace[i].ret) =>
            /\ trace[i].requests # <<>>
            /\ "raise" \in DOMAIN trace[i].requests[1].reply

\* ------------------------------------------------------------------------
\* 8. DEMO MODE: DemoNL2SQLEngine
\* ------------------------------------------------------------------------
\* the library in registration order; sql stands for the query text of the
\* entry, which the engine passes on as it is
DEMO_QUERIES ==
    <<
      \* "revenue", "sales", "monthly"
      [keywords |-> << <<"r","e","v","e","n","u","e">>,
                       <<"s","a","l","e","s">>,
                       <<"m","o","n","t","h","l","y">> >>,
       sql |-> "revenue query", explanation |-> "Monthly revenue trend for delivered orders (in BRL)."],
      \* "category", "categories", "product type"
      [keywords |-> << <<"c","a","t","e","g","o","r","y">>,
                       <<"c","a","t","e","g","o","r","i","e","s">>,
                       <<"p","r","o","d","u","c","t"," ","t","y","p","e">> >>,
       sql |-> "category query", explanation |-> "Top 15 product categories by total sales value."],
      \* "state", "states", "customer location", "region"
      [keywords |-> << <<"s","t","a","t","e">>,
                       <<"s","t","a","t","e","s">>,
                       <<"c","u","s","t","o","m","e","r"," ","l","o","c","a","t","i","o","n">>,
                       <<"r","e","g","i","o","n">> >>,
       sql |-> "state query", explanation |-> "Customer distribution and revenue by Brazilian state."],
      \* "payment", "payment method", "credit card", "boleto"
      [keywords |-> << <<"p","a","y","m","e","n","t">>,
                       <<"p","a","y","m","e","n","t"," ","m","e","t","h","o","d">>,
                       <<"c","r","e","d","i","t"," ","c","a","r","d">>,
                       <<"b","o","l","e","t","o">> >>,
       sql |-> "payment query", explanation |-> "Payment method distribution: credit card, boleto, voucher, debit card."],
      \* "review", "rating", "score", "satisfaction"
      [keywords |-> << <<"r","e","v","i","e","w">>,
                       <<"r","a","t","i","n","g">>,
                       <<"s","c","o","r","e">>,
                       <<"s","a","t","i","s","f","a","c","t","i","o","n">> >>,
       sql |-> "review query", explanation |-> "Distribution of review scores (1-5 stars)."],
      \* "seller", "sellers", "top seller"
      [keywords |-> << <<"s","e","l","l","e","r">>,
                       <<"s","e","l","l","e","r","s">>,
                       <<"t","o","p"," ","s","e","l","l","e","r">> >>,
       sql |-> "seller query", explanation |-> "Top 15 seller cities by total sales."],
      \* "delivery", "shipping", "freight", "delivery time"
      [keywords |-> << <<"d","e","l","i","v","e","r","y">>,
                       <<"s","h","i","p","p","i","n","g">>,
                       <<"f","r","e","i","g","h","t">>,
                       <<"d","e","l","i","v","e","r","y"," ","t","i","m","e">> >>,
       sql |-> "delivery query", explanation |-> "Average delivery time and freight cost by state."],
      \* "order status", "status", "cancelled", "canceled"
      [keywords |-> << <<"o","r","d","e","r"," ","s","t","a","t","u","s">>,
                       <<"s","t","a","t","u","s">>,
                       <<"c","a","n","c","e","l","l","e","d">>,
                       <<"c","a","n","c","e","l","e","d">> >>,
       sql |-> "status query", explanation |-> "Order status distribution across all orders."],
      \* "customer", "top customer", "best customer"
      [keywords |-> << <<"c","u","s","t","o","m","e","r">>,
                       <<"t","o","p"," ","c","u","s","t","o","m","e","r">>,
                       <<"b","e","s","t"," ","c","u","s","t","o","m","e","r">> >>,
       sql |-> "customer query", explanation |-> "Top 15 customers by total spending."],
      \* "heavy", "weight", "big product", "large"
      [keywords |-> << <<"h","e","a","v","y">>,
                       <<"w","e","i","g","h","t">>,
                       <<"b","i","g"," ","p","r","o","d","u","c","t">>,
                       <<"l","a","r","g","e">> >>,
       sql |-> "weight query", explanation |-> "Heaviest product categories by average weight and shipping cost."]
    >>

\* str.lower()
Lower(s) == [i \in 1..Len(s) |-> LowerChar(s[i])]

\* score = sum(1 for kw in keywords if kw in question_lower)
DemoScore(entry, question_lower) ==
    Cardinality({k \in DOMAIN entry.keywords :
                    Contains(question_lower, entry.keywords[k])})

Better_OrEqual(score, best_score) == score >= best_score

\* if score > best_score
Better(score, best_score) == score > best_score

RECURSIVE DemoScan(_, _, _, _)
\* the for loop over DEMO_QUERIES.items() from entry i on; matched is the
\* position of matched_query in the library, 0 for None
DemoScan(i, matched, best_score, question_lower) ==
    IF i > Len(DEMO_QUERIES) THEN [matched |-> matched, best_score |-> best_score]
    ELSE LET score == DemoScore(DEMO_QUERIES[i], question_lower)
         IN  IF Better(score, best_score)
             THEN DemoScan(i + 1, i, score, question_lower)
             ELSE DemoScan(i + 1, matched, best_score, question_lower)

DefaultEntry_Last == DEMO_QUERIES[Len(DEMO_QUERIES)]

\* list(self.DEMO_QUERIES.values())[0]
DefaultEntry == DEMO_QUERIES[1]

\* matched_query when the loop and the default have run
DemoMatch(q) ==
    LET found == DemoScan(1, 0, 0, Lower(q))
    IN  IF found.matched = 0 \/ found.best_score = 0 THEN DefaultEntry
        ELSE DEMO_QUERIES[found.matched]

DemoRecord_HidesFailure(q, matched_query, outcome) ==
    [success |-> outcome.success, question |-> q,
     sql |-> matched_query.sql, explanation |-> matched_query.explanation,
     columns |-> Get(outcome, "columns", <<>>),
     rows |-> Get(outcome, "rows", <<>>),
     row_count |-> Get(outcome, "row_count", 0),
     execution_time_ms |-> Get(outcome, "execution_time_ms", 0),
     attempts |-> 1, error |-> None,
     demo_mode |-> TRUE]

\* the dict DemoNL2SQLEngine.process_question returns
DemoRecord(q, matched_query, outcome) ==
    [success |-> outcome.success, question |-> q,
     sql |-> matched_query.sql, explanation |-> matched_query.explanation,
     columns |-> Get(outcome, "columns", <<>>),
     rows |-> Get(outcome, "rows", <<>>),
     row_count |-> Get(outcome, "row_count", 0),
     execution_time_ms |-> Get(outcome, "execution_time_ms", 0),
     attempts |-> 1, error |-> Get(outcome, "error", None),
     demo_mode |-> TRUE]

\* lines 620-634: the entry is chosen
DemoSelect ==
    /\ pc = "demo"
    /\ sql' = DemoMatch(question).sql
    /\ explanation' = DemoMatch(question).explanation
    /\ pc' = "demo_executing"
    /\ UNCHANGED <<question, result, attempt, exec_result, trace, max_retries,
                   OPENAI_API_KEY>>
    /\ UNCHANGED outsideRun

\* lines 636-651: the entry's query is executed and the record is returned
DemoExecute ==
    /\ pc = "demo_executing"
    /\ \E engine \in EngineOutcomes :
         LET outcome == Execute(sql, engine)
             record == DemoRecord(question, DemoMatch(question), outcome)
         IN  /\ exec_result' = outcome
             /\ trace' = Append(trace, ExecuteEvent(sql, outcome))
             /\ result' = record
             /\ pc' = Returned(record)
    /\ UNCHANGED <<question, sql, explanation, attempt, max_retries, OPENAI_API_KEY>>
    /\ UNCHANGED outsideRun

\* ------------------------------------------------------------------------
\* 9. THE HTTP ENTRY POINT: views.query_api
\* ------------------------------------------------------------------------
\* len(question) > 500
MAX_QUESTION_CHARS == 500

Filler(n) == [i \in 1..n |-> "x"]

\* request bodies: one that does not decode, one that decodes to a list, and
\* objects without a question, with "", with blanks only, with
\* " Top Sellers\n", with "hello", with 500 characters between blanks and
\* with 501 characters
RequestBodies ==
    {[invalid |-> TRUE], [list |-> TRUE], [json |-> [other |-> <<>>]]}
    \cup {[json |-> [question |-> q]] :
            q \in {<<>>, <<" ", "\t">>,
                   <<" ","T","o","p"," ","S","e","l","l","e","r","s","\n">>,
                   <<"h","e","l","l","o">>,
                   <<" ">> \o Filler(MAX_QUESTION_CHARS) \o <<"\n">>,
                   Filler(MAX_QUESTION_CHARS + 1)}}

TooLong_OffByOne(q) == Len(q) > MAX_QUESTION_CHARS + 1

\* if len(question) > 500
TooLong(q) == Len(q) > MAX_QUESTION_CHARS

\* JsonResponse({'success': False, 'error': ...}, status=...)
ErrorResponse(status, error) ==
    [status |-> status, body |-> [success |-> FALSE, error |-> error]]

\* a request has arrived with one of the bodies; the two settings are whatever
\* the deployment set
EntryInit ==
    /\ pc = "request"
    /\ question = <<>>
    /\ max_retries = 1
    /\ OPENAI_API_KEY \in ApiKeys
    /\ ANTHROPIC_API_KEY \in ApiKeys
    /\ http_request \in RequestBodies
    /\ http_response = None
    /\ result = None
    /\ sql = <<>>
    /\ explanation = ""
    /\ attempt = 0
    /\ exec_result = None
    /\ trace = <<>>
    /\ parked = None
    /\ calls = <<>>
    /\ conns = <<>>
    /\ cursors = <<>>
    /\ NoValidation

\* query_api up to the choice of the engine (lines 33-45): the body is decoded,
\* the question is stripped and checked, and the engine is chosen on
\* settings.ANTHROPIC_API_KEY; a body that is not an object raises
\* AttributeError at body.get, which the last handler turns into a 500
QueryApi ==
    /\ pc = "request"
    /\ LET body == http_request
       IN  IF "invalid" \in DOMAIN body
           THEN /\ http_response' = ErrorResponse(400, "Invalid JSON.")
                /\ pc' = "responded"
                /\ UNCHANGED question
           ELSE IF "list" \in DOMAIN body
           THEN /\ http_response' = ErrorResponse(500, "Server error: ")
                /\ pc' = "responded"
                /\ UNCHANGED question
           ELSE LET stripped == Strip(Get(body.json, "question", <<>>))
                IN  IF stripped = <<>>
                    THEN /\ http_response' = ErrorResponse(400, "Please provide a question.")
                         /\ pc' = "responded"
                         /\ UNCHANGED question
                    ELSE IF TooLong(stripped)
                    THEN /\ http_response' = ErrorResponse(400, "Max 500 characters.")
                         /\ pc' = "responded"
                         /\ UNCHANGED question
                    ELSE /\ question' = stripped
                         /\ pc' = IF ANTHROPIC_API_KEY # "" THEN "start" ELSE "demo"
                         /\ UNCHANGED http_response
    /\ UNCHANGED <<result, sql, explanation, attempt, exec_result, trace>>
    /\ UNCHANGED <<http_request, settingsVars, parked, execVars, valVars>>

\* return JsonResponse(result) (line 48), or the 500 of the last handler when
\* process_question raised
Respond ==
    /\ pc \in Terminal \cup {"raised"}
    /\ http_response' = IF pc = "raised" THEN ErrorResponse(500, "Server error: ")
                        ELSE [status |-> 200, body |-> result]
    /\ pc' = "responded"
    /\ UNCHANGED <<question, result, sql, explanation, attempt, exec_result, trace>>
    /\ UNCHANGED <<http_request, settingsVars, parked, execVars, valVars>>

EntryNext ==
    \/ QueryApi
    \/ GenerateFirst
    \/ ValidateFirst
    \/ ExecuteStep
    \/ CorrectStep
    \/ ValidateCorrected
    \/ DemoSelect
    \/ DemoExecute
    \/ Respond

EntrySpec == EntryInit /\ [][EntryNext]_vars

\* the request went to DemoNL2SQLEngine
ToDemo ==
    \/ pc \in {"demo", "demo_executing"}
    \/ result # None /\ "demo_mode" \in DOMAIN result

\* the request went to NL2SQLEngine
ToOrchestrator ==
    \/ pc \in {"start", "validating", "executing", "correcting", "revalidating"}
    \/ result # None /\ "demo_mode" \notin DOMAIN result

\* C28: a request goes to the demo engine exactly when no credential is
\* configured and to the orchestrator otherwise, and so every generate_sql call
\* of the orchestrator finds its credential set and sends its request.
ClientFindsCredential ==
    /\ ToDemo => ANTHROPIC_API_KEY = ""
    /\ ToOrchestrator => ANTHROPIC_API_KEY # ""
    /\ \A i \in GenCalls :
           /\ trace[i].requests # <<>>
           /\ ("error" \in DOMAIN trace[i].ret =>
                 trace[i].ret.error.msg #
                     "OPENAI_API_KEY not configured. Set it in environment variables.")

\* ------------------------------------------------------------------------
\* 10. Calls of the demo engine
\* ------------------------------------------------------------------------
MaxDemoCalls == 2

\* "", "show me ", "WHICH "
QuestionPrefixes ==
    {<<>>,
     <<"s","h","o","w"," ","m","e"," ">>,
     <<"W","H","I","C","H"," ">>}

\* "top sellers", "state", "hello", "Top Customer", "payment", "delivery time"
QuestionCores ==
    {<<"t","o","p"," ","s","e","l","l","e","r","s">>,
     <<"s","t","a","t","e">>,
     <<"h","e","l","l","o">>,
     <<"T","o","p"," ","C","u","s","t","o","m","e","r">>,
     <<"p","a","y","m","e","n","t">>,
     <<"d","e","l","i","v","e","r","y"," ","t","i","m","e">>}

\* "", " by sales", " by state"
QuestionSuffixes ==
    {<<>>,
     <<" ","b","y"," ","s","a","l","e","s">>,
     <<" ","b","y"," ","s","t","a","t","e">>}

DemoQuestions ==
    {p \o c \o x : p \in QuestionPrefixes, c \in QuestionCores, x \in QuestionSuffixes}

\* DemoNL2SQLEngine().process_question(question) has been called
DemoInit ==
    /\ pc = "demo"
    /\ question \in DemoQuestions
    /\ max_retries = 0
    /\ OPENAI_API_KEY = ""
    /\ ANTHROPIC_API_KEY = ""
    /\ http_request = None
    /\ http_response = None
    /\ result = None
    /\ sql = <<>>
    /\ explanation = ""
    /\ attempt = 0
    /\ exec_result = None
    /\ trace = <<>>
    /\ parked = None
    /\ calls = <<>>
    /\ conns = <<>>
    /\ cursors = <<>>
    /\ NoValidation

\* the same question is asked again: a new call with new locals
DemoAgain ==
    /\ pc \in Terminal
    /\ Cardinality(ExecCalls) < MaxDemoCalls
    /\ pc' = "demo"
    /\ result' = None
    /\ sql' = <<>>
    /\ explanation' = ""
    /\ exec_result' = None
    /\ UNCHANGED <<question, attempt, trace, max_retries, OPENAI_API_KEY>>
    /\ UNCHANGED outsideRun

DemoNext ==
    \/ DemoSelect
    \/ DemoExecute
    \/ DemoAgain

DemoSpec == DemoInit /\ [][DemoNext]_vars

\* the number of keywords of entry i that occur somewhere in the lower-cased
\* question
KeywordCount(i, q) ==
    LET text == Lower(q)
        occurs(kw) == \E at \in 1..Len(text) :
                          /\ at + Len(kw) - 1 <= Len(text)
                          /\ \A k \in 1..Len(kw) : text[at + k - 1] = kw[k]
    IN  Cardinality({k \in DOMAIN DEMO_QUERIES[i].keywords :
                        occurs(DEMO_QUERIES[i].keywords[k])})

\* the first registered of the entries with the highest count
HighestFirst(q) ==
    CHOOSE i \in DOMAIN DEMO_QUERIES :
        /\ \A j \in DOMAIN DEMO_QUERIES : KeywordCount(j, q) <= KeywordCount(i, q)
        /\ \A j \in 1..(i - 1) : KeywordCount(j, q) < KeywordCount(i, q)

\* no entry has a keyword in the question
NothingMatches(q) == \A i \in DOMAIN DEMO_QUERIES : KeywordCount(i, q) = 0

\* "show me top sellers by sales"
TopSellersBySales ==
    <<"s","h","o","w"," ","m","e"," ","t","o","p"," ","s","e","l","l","e","r","s"," ","b","y"," ","s","a","l","e","s">>

\* C29: the demo engine selects the entry with the highest count of keywords
\* occurring in the lower-cased question, the first registered one among equal
\* counts; every call with the same question selects and executes the same
\* entry, and "show me top sellers by sales" selects the seller entry.
HighestCountFirstRegistered ==
    LET entry == DEMO_QUERIES[HighestFirst(question)]
    IN  /\ pc = "demo_executing" => sql = entry.sql /\ explanation = entry.explanation
        /\ \A i \in ExecCalls : trace[i].sql = entry.sql
        /\ pc \in Terminal => result.sql = entry.sql /\ result.explanation = entry.explanation
        /\ (question = TopSellersBySales /\ pc = "demo_executing"
                => explanation = "Top 15 seller cities by total sales.")

\* a question whose best count is shared by two entries was asked twice and
\* both calls executed the first of them
TieAskedTwice ==
    /\ pc \in Terminal
    /\ Cardinality(ExecCalls) = 2
    /\ \E i, j \in DOMAIN DEMO_QUERIES :
           /\ i < j
           /\ i = HighestFirst(question)
           /\ KeywordCount(i, question) > 0
           /\ KeywordCount(j, question) = KeywordCount(i, question)
           /\ result.sql = DEMO_QUERIES[i].sql
           /\ \A c \in ExecCalls : trace[c].sql = DEMO_QUERIES[i].sql

\* C30: when no entry has a keyword in the question, the first registered
\* entry, the monthly revenue overview, is selected and executed; a call never
\* returns without a selected entry whose query was executed.
NoMatchRunsFirstEntry ==
    /\ (NothingMatches(question) /\ pc = "demo_executing")
           => /\ sql = DEMO_QUERIES[1].sql
              /\ explanation = "Monthly revenue trend for delivered orders (in BRL)."
    /\ pc \in Terminal
           => /\ \E i \in DOMAIN DEMO_QUERIES :
                     /\ result.sql = DEMO_QUERIES[i].sql
                     /\ result.explanation = DEMO_QUERIES[i].explanation
              /\ ExecCalls # {}
              /\ trace[Last(ExecCalls)].sql = result.sql
              /\ (NothingMatches(question) => result.sql = DEMO_QUERIES[1].sql)

\* "hello" matched nothing and the revenue query was executed with success
HelloRunsRevenueQuery ==
    /\ pc = "done"
    /\ question = <<"h","e","l","l","o">>
    /\ NothingMatches(question)
    /\ result.sql = "revenue query"
    /\ result.row_count > 0
    /\ trace[Last(ExecCalls)].sql = "revenue query"

\* ------------------------------------------------------------------------
\* 11. Requests the entry point turns away
\* ------------------------------------------------------------------------
\* the question of the request, "" when the object has none
AskedQuestion == Get(http_request.json, "question", <<>>)

\* the request carries a question that is empty once trimmed, or one that is
\* longer than 500 characters once trimmed
UnfitQuestion ==
    /\ "json" \in DOMAIN http_request
    /\ \/ \A i \in DOMAIN AskedQuestion : AskedQuestion[i] \in Whitespace
       \/ Len(Strip(AskedQuestion)) > 500

\* an engine's process_question has been called
EngineInvoked == ToDemo \/ ToOrchestrator \/ trace # <<>>

\* C33: query_api never calls process_question with a question that is empty
\* after trimming or longer than 500 characters; it answers such a request
\* with status 400 and no generation, validation or execution call is made.
UnfitQuestionTurnedAway ==
    /\ EngineInvoked
           => /\ ~UnfitQuestion
              /\ question # <<>>
              /\ question[1] \notin Whitespace
              /\ question[Len(question)] \notin Whitespace
              /\ Len(question) <= 500
    /\ (UnfitQuestion /\ pc # "request")
           => /\ pc = "responded"
              /\ http_response.status = 400
              /\ ~http_response.body.success
              /\ trace = <<>>
              /\ result = None

\* a question of 501 characters was answered with 400 and nothing was called
OverlongQuestionAnswered400 ==
    /\ pc = "responded"
    /\ "json" \in DOMAIN http_request
    /\ Len(AskedQuestion) = 501
    /\ http_response = ErrorResponse(400, "Max 500 characters.")
    /\ trace = <<>>

\* ------------------------------------------------------------------------
\* 12. The calls of a demo run
\* ------------------------------------------------------------------------
\* the record of a returned demo call and the call it came from
DemoRecordIsOutcome ==
    LET e == trace[Len(trace)]
    IN  /\ e.call = "execute"
        /\ e.sql = result.sql
        /\ result.demo_mode
        /\ result.attempts = 1
        /\ result.question = question
        /\ result.success = e.ret.success
        /\ result.columns = e.ret.columns
        /\ result.rows = e.ret.rows
        /\ result.row_count = e.ret.row_count
        /\ result.error = (IF e.ret.success THEN None ELSE e.ret.error)

\* C31: a run of the demo engine makes exactly one executor call, on the query
\* of the chosen entry, and no validator or generation call; the record it
\* returns has demo_mode=true and attempts=1, and its success, columns, rows,
\* row_count and error are those of that executor call, failed or not.
DemoRunIsOneExecution ==
    /\ [](GenCalls = {} /\ ValCalls = {})
    /\ [](pc \in Terminal => DemoRecordIsOutcome)
    /\ [][/\ pc = "demo" => trace' = trace /\ pc' = "demo_executing"
          /\ pc = "demo_executing"
                => /\ Len(trace') = Len(trace) + 1
                   /\ trace'[Len(trace')].call = "execute"
                   /\ trace'[Len(trace')].sql = sql
                   /\ sql = DemoMatch(question).sql
                   /\ pc' \in Terminal]_vars

\* a demo run whose one execution failed has returned the failure
DemoExecutionFailed ==
    /\ pc = "failed"
    /\ result.demo_mode
    /\ Len(trace) = 1
    /\ ~trace[1].ret.success
    /\ result.error = trace[1].ret.error
    /\ result.error # None

\* ------------------------------------------------------------------------
\* 13. The record of a run of the orchestrator
\* ------------------------------------------------------------------------
\* C32: a record with success=true carries the outcome of the one successful
\* executor call of the run: its columns, rows, row_count and elapsed time are
\* those the call returned, and its sql is the candidate the call was given.
SuccessCarriesOutcome ==
    pc = "done"
        => LET e == trace[Len(trace)]
           IN  /\ e.call = "execute"
               /\ ExecSucceeded = {Len(trace)}
               /\ result.columns = e.ret.columns
               /\ result.rows = e.ret.rows
               /\ result.row_count = e.ret.row_count
               /\ result.execution_time_ms = e.ret.execution_time_ms
               /\ result.sql = e.sql

\* a corrected candidate returned two rows after the first one had failed
TwoRowsAfterOneFailure ==
    /\ pc = "done"
    /\ Cardinality(ExecFailed) = 1
    /\ result.columns = <<"n">>
    /\ Len(result.rows) = 2
    /\ result.row_count = 2
    /\ result.execution_time_ms = 7
    /\ result.sql # trace[Last(ExecFailed)].sql

\* the last call of the run is a correction call that returned an error
CorrectionErrorLast ==
    /\ trace # <<>>
    /\ Len(trace) \in CorrectionCalls
    /\ Len(trace) \in GenFailed

\* C34: when generate_sql returns an error in a correction round the run ends
\* at once with success=false; the record's error is that error and not the
\* error of the execution before it, its sql and explanation stay those of the
\* candidate whose execution just failed, attempts keeps its value, and the
\* executor is not called again.
CorrectionErrorEndsRun ==
    /\ [](CorrectionErrorLast
            => LET failure == trace[Len(trace)].ret.error
                   e == trace[Len(trace) - 1]
               IN  /\ pc = "failed"
                   /\ ~result.success
                   /\ result.error = failure
                   /\ e.call = "execute"
                   /\ ~e.ret.success
                   /\ result.error # e.ret.error
                   /\ result.sql = e.sql
                   /\ result.attempts = Cardinality(GenOk))
    /\ [][(pc = "correcting" /\ CorrectionErrorLast')
            => /\ result'.sql = result.sql
               /\ result'.explanation = result.explanation
               /\ result'.attempts = result.attempts
               /\ pc' = "failed"]_vars

\* the second correction request was answered with an error after two
\* candidates had failed in the executor
SecondCorrectionReturnedError ==
    /\ CorrectionErrorLast
    /\ Cardinality(ExecFailed) = 2
    /\ Cardinality(GenOk) = 2
    /\ result.attempts = 2
    /\ result.sql = trace[Last(GenOk)].ret.sql
    /\ pc = "failed"

\* C35: for every retry bound and whatever the oracle, the validator and the
\* executor answered, the returned record has success=true if and only if its
\* error is null.
SuccessIffErrorNull ==
    pc \in Terminal => (result.success <=> result.error = None)

\* with retry bound 2 a run succeeded on its third candidate and its record
\* has no error
ThirdCandidateSucceededWithoutError ==
    /\ pc = "done"
    /\ max_retries = 2
    /\ Cardinality(ExecFailed) = 2
    /\ result.success
    /\ result.error = None

\* C36: a returned record with success=false has empty columns, empty rows,
\* row_count 0 and execution_time_ms 0, and its question is the question the
\* run was given; nothing of a failed execution is in it.
FailedRecordHasNoData ==
    pc = "failed"
        => /\ ~result.success
           /\ result.columns = <<>>
           /\ result.rows = <<>>
           /\ result.row_count = 0
           /\ result.execution_time_ms = 0
           /\ result.question = question

\* a run failed after three executions and its record has no data
ExhaustedRecordHasNoData ==
    /\ pc = "failed"
    /\ Cardinality(ExecFailed) = 3
    /\ Len(trace) \in ExecFailed
    /\ result.rows = <<>>
    /\ result.question = question
    /\ result.attempts = 3

\* two executor calls with no executor call between them
ConsecutiveExecutions(i, j) ==
    /\ i \in ExecCalls
    /\ j \in ExecCalls
    /\ i < j
    /\ \A k \in ExecCalls : ~(i < k /\ k < j)

\* C37: in one run each generated candidate is executed at most once: between
\* an executor call and the next there is a generation call that returned the
\* candidate and a validator call that accepted it, and the executor calls
\* never outnumber the generation calls that returned a candidate.
CandidateExecutedAtMostOnce ==
    /\ Cardinality(ExecCalls) <= Cardinality(GenOk)
    /\ \A i, j \in ExecCalls :
           ConsecutiveExecutions(i, j)
               => \E g \in GenOk, v \in ValCalls :
                      /\ i < g /\ g < v /\ v < j
                      /\ trace[v].ret.valid
                      /\ trace[v].sql = trace[g].ret.sql
                      /\ trace[j].sql = trace[g].ret.sql

\* the oracle returned the same text twice and each of the two candidates was
\* executed once
SameTextExecutedAsTwoCandidates ==
    /\ pc \in Terminal
    /\ Cardinality(ExecCalls) = 3
    /\ Cardinality(GenOk) = 3
    /\ \E i, j \in ExecCalls : ConsecutiveExecutions(i, j) /\ trace[i].sql = trace[j].sql

====
